---- MODULE Spec2Model ----
(***************************************************************************)
(* A model of nssjson/decoder.py: the pure-Python string scanner           *)
(* (py_scanstring), the extended-literal resolvers (_datetime_or_string,   *)
(* _uuid_or_string), the object and array parsers (JSONObject, JSONArray)  *)
(* and the JSONDecoder facade (decode, raw_decode).                        *)
(*                                                                         *)
(* Texts are sequences of one-character strings.  Offsets are Python       *)
(* offsets (0-based): At(s, i) is s[i].  Decoded strings are sequences of  *)
(* code points.  The interpreter modelled is Python 3 (PY3 is true,        *)
(* sys.maxunicode is 0x10FFFF, int() follows PEP 515).                     *)
(***************************************************************************)
EXTENDS Integers, Sequences, FiniteSets, TLC

VARIABLES
    s,        \* the input text of the running call
    end,      \* the cursor: the local end / idx of the active frame
    pc,       \* the position in the code
    call,     \* the entry point called and its idx argument
    cfg,      \* the decoder's configuration (JSONDecoder.__init__)
    begin,    \* py_scanstring: offset of the opening quote
    chunks,   \* py_scanstring: the code points decoded so far
    uni,      \* py_scanstring: the code point of the \u escape being read
    stack,    \* the open JSONObject / JSONArray frames, innermost last
    val,      \* the value a finished scanner hands to its caller
    result,   \* the outcome of the call: a value or the exception raised
    hooks,    \* the calls made to object_hook / object_pairs_hook, in order
    first     \* the outcome of this decoder's previous call, if any

vars == <<s, end, pc, call, cfg, begin, chunks, uni, stack, val, result, hooks, first>>

-----------------------------------------------------------------------------
(* Characters *)

\* The printable ASCII characters, code points 32..126, in order (the grave
\* accent, 96, is named: no text uses it).
Printable ==
    <<" ", "!", "\"", "#", "$", "%", "&", "'", "(", ")", "*", "+", ",", "-", ".", "/",
      "0", "1", "2", "3", "4", "5", "6", "7", "8", "9", ":", ";", "<", "=", ">", "?",
      "@", "A", "B", "C", "D", "E", "F", "G", "H", "I", "J", "K", "L", "M", "N", "O",
      "P", "Q", "R", "S", "T", "U", "V", "W", "X", "Y", "Z", "[", "\\", "]", "^", "_",
      "GRAVE", "a", "b", "c", "d", "e", "f", "g", "h", "i", "j", "k", "l", "m", "n", "o",
      "p", "q", "r", "s", "t", "u", "v", "w", "x", "y", "z", "{", "|", "}", "~">>

\* The control characters the texts use: TAB, LF, FF, CR.
Controls == {"\t", "\n", "\f", "\r"}

OrdTable ==
    [c \in Controls \cup {Printable[i] : i \in DOMAIN Printable} |->
        CASE c = "\t" -> 9
          [] c = "\n" -> 10
          [] c = "\f" -> 12
          [] c = "\r" -> 13
          [] OTHER -> 31 + (CHOOSE i \in DOMAIN Printable : Printable[i] = c)]

\* ord(c)
Ord(c) == OrdTable[c]

\* The code points of a piece of text.
Ords(t) == [i \in DOMAIN t |-> Ord(t[i])]

-----------------------------------------------------------------------------
(* Python sequence operations *)

Min(S) == CHOOSE x \in S : \A y \in S : x <= y

\* s[i], defined for 0 <= i < len(s)
At(t, i) == t[i + 1]

\* s[i:j] for 0 <= i: clamped to the text, never an IndexError
Slice(t, i, j) ==
    LET hi == IF j > Len(t) THEN Len(t) ELSE j
    IN  IF i >= hi THEN <<>> ELSE SubSeq(t, i + 1, hi)

\* str.split(sep) with an explicit one-character separator
RECURSIVE Split(_, _)
Split(t, sep) ==
    LET hits == {i \in DOMAIN t : t[i] = sep}
    IN  IF hits = {} THEN <<t>>
        ELSE LET i == Min(hits)
             IN  <<SubSeq(t, 1, i - 1)>> \o Split(SubSeq(t, i + 1, Len(t)), sep)

\* the join of a list of strings
RECURSIVE Join(_)
Join(pieces) ==
    IF pieces = <<>> THEN <<>> ELSE Head(pieces) \o Join(Tail(pieces))

\* x & mask for a mask below 2^16 (Python integers are two's complement of
\* unbounded width, so the low 16 bits of a negative x are x mod 2^16)
RECURSIVE BitAnd(_, _)
BitAnd(x, y) ==
    IF x = 0 \/ y = 0 THEN 0
    ELSE (x % 2) * (y % 2) + 2 * BitAnd(x \div 2, y \div 2)

And16(x, mask) == BitAnd(x % 65536, mask)

-----------------------------------------------------------------------------
(* int(text, base) *)

\* The code points str.strip() and int() treat as whitespace (ASCII ones).
PySpace == {9, 10, 11, 12, 13, 32}

RECURSIVE LStrip(_)
LStrip(t) == IF t # <<>> /\ Head(t) \in PySpace THEN LStrip(Tail(t)) ELSE t

RECURSIVE RStrip(_)
RStrip(t) ==
    IF t # <<>> /\ t[Len(t)] \in PySpace THEN RStrip(SubSeq(t, 1, Len(t) - 1)) ELSE t

\* The value of a digit, or -1 for a code point that is no digit in any base.
DigitVal(c) ==
    IF c \in 48..57 THEN c - 48
    ELSE IF c \in 97..122 THEN c - 87
    ELSE IF c \in 65..90 THEN c - 55
    ELSE -1

IsDigit(c, base) == DigitVal(c) >= 0 /\ DigitVal(c) < base

RECURSIVE DigitsValue(_, _, _)
DigitsValue(t, base, acc) ==
    IF t = <<>> THEN acc
    ELSE IF Head(t) = 95 THEN DigitsValue(Tail(t), base, acc)
    ELSE DigitsValue(Tail(t), base, acc * base + DigitVal(Head(t)))

\* Digits with single underscores between them (PEP 515); lead says whether
\* an underscore may come first (it may after a 0x prefix).
DigitsOK(t, base, lead) ==
    /\ t # <<>>
    /\ \A i \in DOMAIN t : t[i] = 95 \/ IsDigit(t[i], base)
    /\ t[Len(t)] # 95
    /\ lead \/ t[1] # 95
    /\ \A i \in 1..(Len(t) - 1) : ~(t[i] = 95 /\ t[i + 1] = 95)

\* int() on the digits d: lead says whether a 0x prefix came before them,
\* neg whether a minus sign did.
IntValue(d, base, lead, neg) ==
    IF DigitsOK(d, base, lead)
    THEN [ok |-> TRUE,
          v |-> IF neg THEN 0 - DigitsValue(d, base, 0) ELSE DigitsValue(d, base, 0)]
    ELSE [ok |-> FALSE]

\* int() after the sign: an optional 0x / 0X prefix in base 16
IntOfUnsigned(b, base, neg) ==
    IF base = 16 /\ Len(b) >= 2 /\ b[1] = 48 /\ b[2] \in {120, 88}
    THEN IntValue(SubSeq(b, 3, Len(b)), base, TRUE, neg)
    ELSE IntValue(b, base, FALSE, neg)

\* int() after stripping: an optional sign
IntOfStripped(a, base) ==
    IF a # <<>> /\ a[1] \in {43, 45}
    THEN IntOfUnsigned(Tail(a), base, a[1] = 45)
    ELSE IntOfUnsigned(a, base, FALSE)

\* int(t, base) for base 10 or 16: [ok |-> TRUE, v |-> n], or [ok |-> FALSE]
\* where Python raises ValueError.
PyInt(t, base) == IntOfStripped(RStrip(LStrip(t)), base)

-----------------------------------------------------------------------------
(* Values and outcomes *)

\* A decoded value: a tag t and a payload v (a sequence).
Value(t, v) == [t |-> t, v |-> v]

\* A plain string, as its code points.
Str(cps) == Value("str", cps)

\* What a resolver or constructor does: return a value, or raise ValueError.
Returned(v) == [raised |-> FALSE, value |-> v]
ValueError == [raised |-> TRUE]

-----------------------------------------------------------------------------
(* The standard library's date, datetime, time and UUID constructors *)

IsLeap(y) == y % 4 = 0 /\ (y % 100 # 0 \/ y % 400 = 0)

DaysInMonth(y, m) ==
    IF m = 2 THEN (IF IsLeap(y) THEN 29 ELSE 28)
    ELSE IF m \in {4, 6, 9, 11} THEN 30 ELSE 31

\* datetime._check_date_fields: MINYEAR <= year <= MAXYEAR, 1 <= month <= 12,
\* 1 <= day <= days in that month.
DateFieldsOK(y, m, d) ==
    /\ y >= 1 /\ y <= 9999
    /\ m >= 1 /\ m <= 12
    /\ d >= 1 /\ d <= DaysInMonth(y, m)

\* datetime._check_time_fields
TimeFieldsOK(h, m, sec, us) ==
    /\ h >= 0 /\ h <= 23
    /\ m >= 0 /\ m <= 59
    /\ sec >= 0 /\ sec <= 59
    /\ us >= 0 /\ us <= 999999

\* date(y, m, d)
_date(y, m, d) ==
    IF DateFieldsOK(y, m, d) THEN Returned(Value("date", <<y, m, d>>)) ELSE ValueError

\* datetime(y, mo, d, h, m, s, ms, tz); tz is 1 for utc and 0 for None
_datetime(y, mo, d, h, m, sec, ms, tz) ==
    IF DateFieldsOK(y, mo, d) /\ TimeFieldsOK(h, m, sec, ms)
    THEN Returned(Value("datetime", <<y, mo, d, h, m, sec, ms, tz>>))
    ELSE ValueError

\* time(h, m, s, ms)
_time(h, m, sec, ms) ==
    IF TimeFieldsOK(h, m, sec, ms) THEN Returned(Value("time", <<h, m, sec, ms>>))
    ELSE ValueError

\* uuid.UUID(hex): the hex string must have 32 characters once hyphens are
\* removed, or ValueError is raised; the caller has checked that they are hex
\* digits, so int(hex, 16) succeeds. The UUID is kept as its 32 digits.
_uuid_UUID(ss) ==
    IF Len(ss) = 32 THEN Returned(Value("uuid", ss)) ELSE ValueError

-----------------------------------------------------------------------------
(* _datetime_or_string and _uuid_or_string *)

\* map(int, chunks): the integers, or <<>> when one int() raises ValueError
\* (the list is never empty here).
MapInt(parts) ==
    IF \A i \in DOMAIN parts : PyInt(parts[i], 10).ok
    THEN [i \in DOMAIN parts |-> PyInt(parts[i], 10).v]
    ELSE <<>>

\* c in string
Contains(string, c) == \E i \in DOMAIN string : string[i] = c

\* Lines 86-87 and 104-105: a 3-digit fraction is padded to microseconds
\* (when the list has want items)
Pad(parts, want) ==
    IF Len(parts) = want /\ Len(parts[want]) = 3
    THEN [parts EXCEPT ![want] = @ \o <<48, 48, 48>>]
    ELSE parts

\* Lines 81-87 and 99-105: the last chunk is split at '.', or a '0' is
\* appended when it holds none; then the fraction is padded.
Fraction(parts, want) ==
    IF Contains(parts[Len(parts)], 46)
    THEN Pad(SubSeq(parts, 1, Len(parts) - 1) \o Split(parts[Len(parts)], 46), want)
    ELSE Pad(Append(parts, <<48>>), want)

\* Lines 59-64: the three integers make a date, or the try falls through.
\* A one-element sequence is a return (or a raise), <<>> is falling through.
DateInts(n) ==
    IF n # <<>> THEN <<_date(n[1], n[2], n[3])>> ELSE <<>>

\* Lines 57-58
DateChunks(parts) ==
    IF Len(parts) = 3 THEN DateInts(MapInt(parts)) ELSE <<>>

\* Lines 55-64: maybe a date
MaybeDate(string) ==
    IF Len(string) = 10 THEN DateChunks(Split(string, 45)) ELSE <<>>

\* Lines 88-93
DatetimeInts(n, tz) ==
    IF n # <<>>
    THEN <<_datetime(n[1], n[2], n[3], n[4], n[5], n[6], n[7], tz)>>
    ELSE <<>>

\* Line 85
DatetimeSeven(parts, tz) ==
    IF Len(parts) = 7 THEN DatetimeInts(MapInt(parts), tz) ELSE <<>>

\* Lines 76-84: a trailing Z is cut off and means utc (tz = 1)
DatetimeSix(parts) ==
    IF Len(parts) # 6 THEN <<>>
    ELSE IF parts[6] # <<>> /\ parts[6][Len(parts[6])] = 90
    THEN DatetimeSeven(
             Fraction([parts EXCEPT ![6] = SubSeq(@, 1, Len(@) - 1)], 7), 1)
    ELSE DatetimeSeven(Fraction(parts, 7), 0)

\* Lines 74-75
DatetimeChunks(dparts, tpiece) ==
    IF Len(dparts) = 3 THEN DatetimeSix(dparts \o Split(tpiece, 58)) ELSE <<>>

\* Lines 72-73
DatetimePieces(pieces) ==
    IF Len(pieces) = 2 THEN DatetimeChunks(Split(pieces[1], 45), pieces[2]) ELSE <<>>

\* Lines 66-93: maybe a datetime
MaybeDatetime(string) ==
    IF Len(string) \in {19, 20, 23, 24, 26, 27}
    THEN DatetimePieces(IF Contains(string, 84) THEN Split(string, 84)
                        ELSE Split(string, 32))
    ELSE <<>>

\* Lines 106-111
TimeInts(n) ==
    IF n # <<>> THEN <<_time(n[1], n[2], n[3], n[4])>> ELSE <<>>

\* Line 103
TimeFour(parts) ==
    IF Len(parts) = 4 THEN TimeInts(MapInt(parts)) ELSE <<>>

\* Lines 97-102
TimeChunks(parts) ==
    IF Len(parts) = 3 THEN TimeFour(Fraction(parts, 4)) ELSE <<>>

\* Lines 95-111: maybe a time
MaybeTime(string) ==
    IF Len(string) \in {8, 12, 15} THEN TimeChunks(Split(string, 58)) ELSE <<>>

\* The first section that returned or raised decides; line 113 otherwise.
FirstOr(attempts, string) ==
    IF attempts = <<>> THEN Returned(Str(string)) ELSE attempts[1]

\* _datetime_or_string(string): what it returns, or that it raises
_datetime_or_string(string) ==
    FirstOr((MaybeDate(string) \o MaybeDatetime(string)) \o MaybeTime(string), string)

\* string.hexdigits
_hexdigits == 48..57 \cup 97..102 \cup 65..70

\* Lines 119-121
UUIDOfHex(ss, str) ==
    IF \A i \in DOMAIN ss : ss[i] \in _hexdigits
    THEN _uuid_UUID(ss)
    ELSE Returned(Str(str))

\* _uuid_or_string(s)
_uuid_or_string(str) ==
    IF /\ Len(str) = 36
       /\ str[9] = 45 /\ str[14] = 45 /\ str[19] = 45 /\ str[24] = 45
    THEN UUIDOfHex(Join(Split(str, 45)), str)
    ELSE Returned(Str(str))

-----------------------------------------------------------------------------
(* Outcomes of a call *)

\* The messages of the JSONDecodeErrors the decoder raises.
UnterminatedString == "Unterminated string starting at"
InvalidControlCharacter == "Invalid control character %r at"
InvalidEscapeSequence == "Invalid \\X escape sequence %r"
InvalidUnicodeEscape == "Invalid \\uXXXX escape sequence"
ExpectingPropertyName == "Expecting property name enclosed in double quotes"
ExpectingColon == "Expecting ':' delimiter"
ExpectingCommaOrBrace == "Expecting ',' delimiter or '}'"
ExpectingValueOrBracket == "Expecting value or ']'"
ExpectingCommaOrBracket == "Expecting ',' delimiter or ']'"
ExtraData == "Extra data"
ExpectingValue == "Expecting value"

\* raise JSONDecodeError(msg, s, pos)
JSONDecodeError(msg, pos) == [kind |-> "JSONDecodeError", msg |-> msg, pos |-> pos]

\* raise JSONDecodeError(msg, s, pos, endpos)
JSONDecodeErrorEnd(msg, pos, endpos) ==
    [kind |-> "JSONDecodeError", msg |-> msg, pos |-> pos, endpos |-> endpos]

\* A ValueError that is not a JSONDecodeError, raised by the named callee and
\* caught nowhere in the decoder.
UncaughtValueError(callee) == [kind |-> "ValueError", from |-> callee]

\* return value, end_
ReturnPair(value, end_) == [kind |-> "return", value |-> value, end |-> end_]

\* return obj
ReturnValue(value) == [kind |-> "return", value |-> value]

Running == [kind |-> "running"]

NoValue == Value("none", <<>>)

\* The exception err leaves the call: every frame is abandoned.
Raise(err) == pc' = "done" /\ result' = err

\* Where the caller goes on once a scanner has returned to it: frames are the
\* caller's frames.
Continuation(frames) ==
    IF frames = <<>>
    THEN (IF call.fn = "decode" THEN "decode_extra" ELSE "done")
    ELSE IF frames[Len(frames)].fn = "JSONArray" THEN "array_value"
    ELSE IF frames[Len(frames)].at = "key" THEN "object_colon"
    ELSE "object_value"

\* A scanner returns (v, e) to its caller, whose frames are left; the entry
\* points raw_decode and py_scanstring return the pair to the user.
Deliver(frames, v, e) ==
    /\ val' = v
    /\ end' = e
    /\ stack' = frames
    /\ pc' = Continuation(frames)
    /\ result' = IF Continuation(frames) = "done" THEN ReturnPair(v, e) ELSE result

-----------------------------------------------------------------------------
(* py_scanstring *)

\* BACKSLASH: the one-character escapes and the code points they stand for
BACKSLASH ==
    [c \in {"\"", "\\", "/", "b", "f", "n", "r", "t"} |->
        CASE c = "\"" -> 34
          [] c = "\\" -> 92
          [] c = "/" -> 47
          [] c = "b" -> 8
          [] c = "f" -> 12
          [] c = "n" -> 10
          [] c = "r" -> 13
          [] c = "t" -> 9]

\* STRINGCHUNK's terminator class: a quote, a backslash or \x00-\x1f
IsTerminator(c) == c = "\"" \/ c = "\\" \/ Ord(c) <= 31

\* STRINGCHUNK.match(text, pos): the offset of the first terminator at or
\* after pos, in a set; the empty set when the match fails.
STRINGCHUNK(text, pos) ==
    LET hits == {j \in pos..(Len(text) - 1) : IsTerminator(At(text, j))}
    IN  IF hits = {} THEN {} ELSE {Min(hits)}

\* x | y for x, y >= 0
RECURSIVE BitOr(_, _)
BitOr(x, y) ==
    IF x = 0 THEN y
    ELSE IF y = 0 THEN x
    ELSE (IF x % 2 = 1 \/ y % 2 = 1 THEN 1 ELSE 0) + 2 * BitOr(x \div 2, y \div 2)

\* A variant of SurrogatePair that leaves out the 0x10000 offset.
SurrogatePairInBasicPlane(hi, lo) == BitOr((hi - 55296) * 1024, lo - 56320)

\* Lines 211-212: 0x10000 + (((uni - 0xd800) << 10) | (uni2 - 0xdc00))
SurrogatePair(hi, lo) == 65536 + BitOr((hi - 55296) * 1024, lo - 56320)

\* The x / X test of lines 189-190 and 204-205 on a 4-character escape
HasX(esc) == Slice(esc, 1, 2) \in {<<"x">>, <<"X">>}

\* A variant of PyScanstring that takes the offset passed in as the start of
\* the string.
PyScanstringBeginAtEnd ==
    /\ pc = "py_scanstring"
    /\ chunks' = <<>>
    /\ begin' = end
    /\ pc' = "chunk"
    /\ UNCHANGED <<s, end, call, cfg, uni, stack, val, result, hooks, first>>

\* Lines 144-148: the set-up before the loop
PyScanstring ==
    /\ pc = "py_scanstring"
    /\ chunks' = <<>>
    /\ begin' = end - 1
    /\ pc' = "chunk"
    /\ UNCHANGED <<s, end, call, cfg, uni, stack, val, result, hooks, first>>

\* Lines 149-171: match one chunk and look at its terminator
ScanChunk ==
    /\ pc = "chunk"
    /\ LET m == STRINGCHUNK(s, end)
       IN  IF m = {}
           THEN /\ Raise(JSONDecodeError(UnterminatedString, begin))
                /\ UNCHANGED <<end, chunks>>
           ELSE LET j == CHOOSE x \in m : TRUE
                    terminator == At(s, j)
                    content == Ords(Slice(s, end, j))
                IN  /\ end' = j + 1
                    /\ IF terminator = "\""
                       THEN /\ chunks' = chunks \o content
                            /\ pc' = "join"
                            /\ UNCHANGED result
                       ELSE IF terminator # "\\"
                       THEN IF cfg.strict
                            THEN /\ chunks' = chunks \o content
                                 /\ Raise(JSONDecodeError(InvalidControlCharacter, j + 1))
                            ELSE /\ chunks' = (chunks \o content) \o <<Ord(terminator)>>
                                 /\ pc' = "chunk"
                                 /\ UNCHANGED result
                       ELSE /\ chunks' = chunks \o content
                            /\ pc' = "escape"
                            /\ UNCHANGED result
    /\ UNCHANGED <<s, call, cfg, begin, uni, stack, val, hooks, first>>

\* Lines 172-184: the character after a backslash
Escape ==
    /\ pc = "escape"
    /\ IF end >= Len(s)
       THEN /\ Raise(JSONDecodeError(UnterminatedString, begin))
            /\ UNCHANGED <<end, chunks>>
       ELSE LET esc == At(s, end)
            IN  IF esc # "u"
                THEN IF esc \in DOMAIN BACKSLASH
                     THEN /\ chunks' = Append(chunks, BACKSLASH[esc])
                          /\ end' = end + 1
                          /\ pc' = "chunk"
                          /\ UNCHANGED result
                     ELSE /\ Raise(JSONDecodeError(InvalidEscapeSequence, end))
                          /\ UNCHANGED <<end, chunks>>
                ELSE /\ pc' = "unicode"
                     /\ UNCHANGED <<end, chunks, result>>
    /\ UNCHANGED <<s, call, cfg, begin, uni, stack, val, hooks, first>>

\* Lines 185-196: the four characters after \u
UnicodeEscape ==
    /\ pc = "unicode"
    /\ LET esc == Slice(s, end + 1, end + 5)
           n == PyInt(Ords(esc), 16)
       IN  IF Len(esc) # 4 \/ HasX(esc)
           THEN /\ Raise(JSONDecodeError(InvalidUnicodeEscape, end - 1))
                /\ UNCHANGED <<end, uni>>
           ELSE IF ~n.ok
           THEN /\ Raise(JSONDecodeError(InvalidUnicodeEscape, end - 1))
                /\ UNCHANGED <<end, uni>>
           ELSE /\ uni' = n.v
                /\ end' = end + 5
                /\ pc' = "surrogate"
                /\ UNCHANGED result
    /\ UNCHANGED <<s, call, cfg, begin, chunks, stack, val, hooks, first>>

\* unichr(uni) appended to the chunks (lines 214-216)
AppendChar(u, e) ==
    IF u >= 0 /\ u <= 1114111
    THEN /\ chunks' = Append(chunks, u)
         /\ uni' = u
         /\ end' = e
         /\ pc' = "chunk"
         /\ UNCHANGED result
    ELSE /\ Raise(UncaughtValueError("unichr"))
         /\ uni' = u
         /\ end' = e
         /\ UNCHANGED chunks

\* Lines 197-216: join a surrogate pair, then append the character
Surrogate ==
    /\ pc = "surrogate"
    /\ LET esc2 == Slice(s, end + 2, end + 6)
           n2 == PyInt(Ords(esc2), 16)
       IN  IF And16(uni, 64512) = 55296 /\ Slice(s, end, end + 2) = <<"\\", "u">>
              /\ Len(esc2) = 4 /\ ~HasX(esc2)
           THEN IF ~n2.ok
                THEN /\ Raise(JSONDecodeError(InvalidUnicodeEscape, end))
                     /\ UNCHANGED <<end, uni, chunks>>
                ELSE IF And16(n2.v, 64512) = 56320
                THEN AppendChar(SurrogatePair(uni, n2.v), end + 6)
                ELSE AppendChar(uni, end)
           ELSE AppendChar(uni, end)
    /\ UNCHANGED <<s, call, cfg, begin, stack, val, hooks, first>>

\* Lines 219-220
ResolveDatetime(str) ==
    IF cfg.iso_datetime THEN _datetime_or_string(str) ELSE Returned(Str(str))

\* Lines 221-222
ResolveUUID(v) ==
    IF cfg.handle_uuid /\ v.t = "str" THEN _uuid_or_string(v.v) ELSE Returned(v)

\* Lines 218-224: join the chunks, resolve extended literals, return
JoinChunks ==
    /\ pc = "join"
    /\ \E r1 \in {ResolveDatetime(chunks)} :
          IF r1.raised
          THEN /\ Raise(UncaughtValueError("_datetime_or_string"))
               /\ UNCHANGED <<end, val, stack>>
          ELSE \E r2 \in {ResolveUUID(r1.value)} :
                  IF r2.raised
                  THEN /\ Raise(UncaughtValueError("_uuid_or_string"))
                       /\ UNCHANGED <<end, val, stack>>
                  ELSE Deliver(stack, r2.value, end)
    /\ UNCHANGED <<s, call, cfg, begin, chunks, uni, hooks, first>>

-----------------------------------------------------------------------------
(* Whitespace and the cursor moves of JSONObject and JSONArray *)

\* WHITESPACE_STR
WHITESPACE_STR == {" ", "\t", "\n", "\r"}

\* A variant of _w that leaves a pos beyond the text where it is.
_wUnclamped(text, pos) ==
    IF pos >= Len(text) THEN pos
    ELSE Min({i \in pos..(Len(text) - 1) : At(text, i) \notin WHITESPACE_STR}
             \cup {Len(text)})

\* WHITESPACE.match(text, pos).end(): the offset of the first character at or
\* after pos that is no whitespace; a pos beyond the text is taken as its end.
RECURSIVE _w(_, _)
_w(text, pos) ==
    IF pos >= Len(text) THEN Len(text)
    ELSE IF At(text, pos) \in WHITESPACE_STR THEN _w(text, pos + 1)
    ELSE pos

\* s[e:e + 1] for e >= 0: one character, or "" at the end of the text. It is
\* also nextchar after "try: nextchar = s[e] except IndexError: nextchar = ''".
Char(text, e) == IF e < Len(text) THEN At(text, e) ELSE ""

\* The cursor and the character under it
Under(text, e) == <<e, Char(text, e)>>

\* Lines 244-249: whitespace after the opening brace ('' in _ws is true)
SkipObjectStart(text, e) ==
    IF Char(text, e) = "\"" THEN Under(text, e)
    ELSE IF Char(text, e) = "" \/ Char(text, e) \in WHITESPACE_STR
    THEN Under(text, _w(text, e))
    ELSE Under(text, e)

\* Lines 271-273: whitespace before the colon
SkipToColon(text, e) ==
    IF Char(text, e) # ":" THEN Under(text, _w(text, e)) ELSE Under(text, e)

\* Lines 289-295: whitespace after a value of an object
SkipAfterValue(text, e) ==
    IF Char(text, e) \in WHITESPACE_STR THEN Under(text, _w(text, e + 1))
    ELSE Under(text, e)

\* A variant of SkipAfterDelimiter that skips one whitespace character only.
SkipOneAfterDelimiter(text, e) ==
    IF Char(text, e) \in WHITESPACE_STR THEN Under(text, e + 1) ELSE Under(text, e)

\* Lines 303-312 (and the cursor of lines 278-284 and 354-360): whitespace
\* after a colon or a comma, one character, then one more, then a run
SkipAfterDelimiter(text, e) ==
    IF Char(text, e) \in WHITESPACE_STR THEN SkipAfterValue(text, e + 1)
    ELSE Under(text, e)

\* Lines 331-334 and 344-347: whitespace in an array ('' in _ws is true)
SkipInArray(text, e) ==
    IF Char(text, e) = "" \/ Char(text, e) \in WHITESPACE_STR
    THEN Under(text, _w(text, e + 1))
    ELSE Under(text, e)

-----------------------------------------------------------------------------
(* The value scanner scan_once: string, object, array, literal, number *)

IsDecimal(c) == c \in {"0", "1", "2", "3", "4", "5", "6", "7", "8", "9"}

\* The offset after the digits that start at e
RECURSIVE DigitsEnd(_, _)
DigitsEnd(text, e) ==
    IF IsDecimal(Char(text, e)) THEN DigitsEnd(text, e + 1) ELSE e

\* The integer part: 0, or a nonzero digit and more digits; e when there is none
IntegerEnd(text, e) ==
    IF Char(text, e) = "0" THEN e + 1 ELSE DigitsEnd(text, e)

\* The optional fraction: a point and at least one digit
FractionEnd(text, e) ==
    IF Char(text, e) = "." /\ IsDecimal(Char(text, e + 1))
    THEN DigitsEnd(text, e + 1) ELSE e

\* The digits of an exponent after its optional sign, or back to e0
ExponentDigits(text, e, e0) ==
    IF IsDecimal(Char(text, e)) THEN DigitsEnd(text, e) ELSE e0

\* The optional exponent: e or E, an optional sign, at least one digit
ExponentEnd(text, e) ==
    IF Char(text, e) \in {"e", "E"}
    THEN (IF Char(text, e + 1) \in {"+", "-"}
          THEN ExponentDigits(text, e + 2, e) ELSE ExponentDigits(text, e + 1, e))
    ELSE e

\* Where the integer part of the number at e ends (after an optional minus
\* sign), in a set; empty when no number starts at e.
NumberInteger(text, e) ==
    LET i == IF Char(text, e) = "-" THEN e + 1 ELSE e
    IN  IF IntegerEnd(text, i) > i THEN {IntegerEnd(text, i)} ELSE {}

\* The number token from e whose integer part ends at i: its value and end.
\* The value keeps the digits: parse_int and parse_float are configurable.
NumberToken(text, e, i) ==
    LET j == ExponentEnd(text, FractionEnd(text, i))
    IN  <<Value(IF j > i THEN "float" ELSE "int", Ords(Slice(text, e, j))), j>>

\* The fixed literals and constants, longest first where one starts another
Literals ==
    <<<<"n", "u", "l", "l">>, <<"t", "r", "u", "e">>, <<"f", "a", "l", "s", "e">>,
      <<"N", "a", "N">>, <<"I", "n", "f", "i", "n", "i", "t", "y">>,
      <<"-", "I", "n", "f", "i", "n", "i", "t", "y">>>>

\* The literals that match the text at e
LiteralsAt(text, e) ==
    {i \in DOMAIN Literals : Slice(text, e, e + Len(Literals[i])) = Literals[i]}

\* A new frame of JSONObject (lines 236-241) or JSONArray (lines 329-330)
ObjectFrame == [fn |-> "JSONObject", pairs |-> <<>>, at |-> "key", key |-> NoValue]
ArrayFrame == [fn |-> "JSONArray", values |-> <<>>]

\* scan_once(s, end): dispatch on the character under the cursor
ScanOnce ==
    /\ pc = "scan_once"
    /\ \E c \in {Char(s, end)} :
         IF c = "\""
         THEN /\ pc' = "py_scanstring"
              /\ end' = end + 1
              /\ UNCHANGED <<stack, val, result>>
         ELSE IF c = "{"
         THEN /\ pc' = "JSONObject"
              /\ end' = end + 1
              /\ stack' = Append(stack, ObjectFrame)
              /\ UNCHANGED <<val, result>>
         ELSE IF c = "["
         THEN /\ pc' = "JSONArray"
              /\ end' = end + 1
              /\ stack' = Append(stack, ArrayFrame)
              /\ UNCHANGED <<val, result>>
         ELSE IF LiteralsAt(s, end) # {}
         THEN \E i \in {Min(LiteralsAt(s, end))} :
                 Deliver(stack, Value("literal", Ords(Literals[i])),
                         end + Len(Literals[i]))
         ELSE IF NumberInteger(s, end) # {}
         THEN \E i \in NumberInteger(s, end) :
                 Deliver(stack, NumberToken(s, end, i)[1], NumberToken(s, end, i)[2])
         ELSE /\ Raise(JSONDecodeError(ExpectingValue, end))
              /\ UNCHANGED <<end, stack, val>>
    /\ UNCHANGED <<s, call, cfg, begin, chunks, uni, hooks, first>>

-----------------------------------------------------------------------------
(* JSONObject *)

\* A variant of DictOf in which the first pair with a key keeps its value.
RECURSIVE DictOfFirst(_, _)
DictOfFirst(pairs, acc) ==
    IF pairs = <<>> THEN acc
    ELSE IF \E i \in DOMAIN acc : acc[i][1] = Head(pairs)[1]
    THEN DictOfFirst(Tail(pairs), acc)
    ELSE DictOfFirst(Tail(pairs), Append(acc, Head(pairs)))

\* dict(pairs): a later pair with the same key replaces the value of the
\* earlier one, which keeps its place.
RECURSIVE DictOf(_, _)
DictOf(pairs, acc) ==
    IF pairs = <<>> THEN acc
    ELSE LET p == Head(pairs)
             at == {i \in DOMAIN acc : acc[i][1] = p[1]}
         IN  IF at = {} THEN DictOf(Tail(pairs), Append(acc, p))
             ELSE DictOf(Tail(pairs), [acc EXCEPT ![Min(at)] = p])

\* The frames below the innermost one
Pop(frames) == SubSeq(frames, 1, Len(frames) - 1)

\* Lines 252-258 and 320-326: the object's value is built from its pairs and
\* returned with the offset e. A hook that is set is called; the value it
\* returns is kept as the hook's name applied to its argument.
ObjectReturn(pairs, e) ==
    IF cfg.object_pairs_hook
    THEN /\ hooks' = Append(hooks, [hook |-> "object_pairs_hook", arg |-> pairs])
         /\ Deliver(Pop(stack), Value("object_pairs_hook", pairs), e)
    ELSE IF cfg.object_hook
    THEN /\ hooks' = Append(hooks, [hook |-> "object_hook",
                                    arg |-> Value("dict", DictOf(pairs, <<>>))])
         /\ Deliver(Pop(stack), Value("object_hook", <<Value("dict", DictOf(pairs, <<>>))>>), e)
    ELSE /\ hooks' = hooks
         /\ Deliver(Pop(stack), Value("dict", DictOf(pairs, <<>>)), e)

\* The innermost frame
Top == stack[Len(stack)]

\* The frames with the innermost one replaced
WithTop(frame) == [stack EXCEPT ![Len(stack)] = frame]

\* Lines 236-263: up to the first key, or the empty object
ObjectStart ==
    /\ pc = "JSONObject"
    /\ \E at \in {SkipObjectStart(s, end)} :
         IF at[2] = "}" /\ Char(s, end) # "\""
         THEN ObjectReturn(<<>>, at[1] + 1)
         ELSE IF at[2] # "\""
         THEN /\ Raise(JSONDecodeError(ExpectingPropertyName, at[1]))
              /\ end' = at[1]
              /\ UNCHANGED <<stack, val, hooks>>
         ELSE /\ end' = at[1] + 1
              /\ pc' = "py_scanstring"
              /\ UNCHANGED <<stack, val, hooks, result>>
    /\ UNCHANGED <<s, call, cfg, begin, chunks, uni, first>>

\* Lines 265-276: the key has been scanned; the colon
ObjectColon ==
    /\ pc = "object_colon"
    /\ \E at \in {SkipToColon(s, end)} :
         IF at[2] # ":"
         THEN /\ Raise(JSONDecodeError(ExpectingColon, at[1]))
              /\ end' = at[1]
              /\ UNCHANGED stack
         ELSE /\ end' = at[1] + 1
              /\ pc' = "object_before_value"
              /\ stack' = WithTop([Top EXCEPT !.key = val, !.at = "value"])
              /\ UNCHANGED result
    /\ UNCHANGED <<s, call, cfg, begin, chunks, uni, val, hooks, first>>

\* Lines 278-286: whitespace after the colon, then the value is scanned
ObjectBeforeValue ==
    /\ pc = "object_before_value"
    /\ end' = SkipAfterDelimiter(s, end)[1]
    /\ pc' = "scan_once"
    /\ UNCHANGED <<s, call, cfg, begin, chunks, uni, stack, val, result, hooks, first>>

\* Lines 286-301: the value has been scanned; a closing brace or a comma
ObjectValue ==
    /\ pc = "object_value"
    /\ \E at \in {SkipAfterValue(s, end)} :
         /\ end' = at[1] + 1
         /\ stack' = WithTop([Top EXCEPT !.pairs = Append(@, <<Top.key, val>>)])
         /\ IF at[2] = "}"
            THEN pc' = "object_return" /\ UNCHANGED result
            ELSE IF at[2] # ","
            THEN Raise(JSONDecodeError(ExpectingCommaOrBrace, at[1]))
            ELSE pc' = "object_comma" /\ UNCHANGED result
    /\ UNCHANGED <<s, call, cfg, begin, chunks, uni, val, hooks, first>>

\* Lines 303-318: after a comma, the next key's opening quote
ObjectComma ==
    /\ pc = "object_comma"
    /\ \E at \in {SkipAfterDelimiter(s, end)} :
         /\ end' = at[1] + 1
         /\ IF at[2] # "\""
            THEN Raise(JSONDecodeError(ExpectingPropertyName, at[1])) /\ UNCHANGED stack
            ELSE /\ pc' = "py_scanstring"
                 /\ stack' = WithTop([Top EXCEPT !.at = "key"])
                 /\ UNCHANGED result
    /\ UNCHANGED <<s, call, cfg, begin, chunks, uni, val, hooks, first>>

\* Lines 320-326: the object is complete
ObjectFinish ==
    /\ pc = "object_return"
    /\ ObjectReturn(Top.pairs, end)
    /\ UNCHANGED <<s, call, cfg, begin, chunks, uni, first>>

-----------------------------------------------------------------------------
(* JSONArray *)

\* Lines 329-340: up to the first value, or the empty array
ArrayStart ==
    /\ pc = "JSONArray"
    /\ \E at \in {SkipInArray(s, end)} :
         IF at[2] = "]"
         THEN Deliver(Pop(stack), Value("list", <<>>), at[1] + 1)
         ELSE IF at[2] = ""
         THEN /\ Raise(JSONDecodeError(ExpectingValueOrBracket, at[1]))
              /\ end' = at[1]
              /\ UNCHANGED <<stack, val>>
         ELSE /\ end' = at[1]
              /\ pc' = "scan_once"
              /\ UNCHANGED <<stack, val, result>>
    /\ UNCHANGED <<s, call, cfg, begin, chunks, uni, hooks, first>>

\* Lines 342-352 and 362: a value has been scanned; a closing bracket or a comma
ArrayValue ==
    /\ pc = "array_value"
    /\ \E at \in {SkipInArray(s, end)} :
         IF at[2] = "]"
         THEN Deliver(Pop(stack), Value("list", Append(Top.values, val)), at[1] + 1)
         ELSE /\ end' = at[1] + 1
              /\ stack' = WithTop([Top EXCEPT !.values = Append(@, val)])
              /\ UNCHANGED val
              /\ IF at[2] # ","
                 THEN Raise(JSONDecodeError(ExpectingCommaOrBracket, at[1]))
                 ELSE pc' = "array_comma" /\ UNCHANGED result
    /\ UNCHANGED <<s, call, cfg, begin, chunks, uni, hooks, first>>

\* Lines 354-360 and 342: whitespace after a comma, then the next value
ArrayComma ==
    /\ pc = "array_comma"
    /\ end' = SkipAfterDelimiter(s, end)[1]
    /\ pc' = "scan_once"
    /\ UNCHANGED <<s, call, cfg, begin, chunks, uni, stack, val, result, hooks, first>>

-----------------------------------------------------------------------------
(* JSONDecoder.decode and JSONDecoder.raw_decode *)

\* Line 488: decode calls raw_decode(s), whose idx is 0
Decode ==
    /\ pc = "decode"
    /\ pc' = "raw_decode"
    /\ end' = 0
    /\ UNCHANGED <<s, call, cfg, begin, chunks, uni, stack, val, result, hooks, first>>

\* A variant of RawDecode without the test of lines 505-508: the regular
\* expression takes a negative pos as 0.
RawDecodeMasked ==
    /\ pc = "raw_decode"
    /\ end' = _w(s, IF end < 0 THEN 0 ELSE end)
    /\ pc' = "scan_once"
    /\ UNCHANGED <<s, call, cfg, begin, chunks, uni, stack, val, result, hooks, first>>

\* Lines 505-511: a negative idx is refused, whitespace is skipped and the
\* value scanner is called
RawDecode ==
    /\ pc = "raw_decode"
    /\ IF end < 0
       THEN Raise(JSONDecodeError(ExpectingValue, end)) /\ UNCHANGED end
       ELSE /\ end' = _w(s, end)
            /\ pc' = "scan_once"
            /\ UNCHANGED result
    /\ UNCHANGED <<s, call, cfg, begin, chunks, uni, stack, val, hooks, first>>

\* A variant of DecodeExtra without the whitespace skip of line 489.
DecodeExtraUnskipped ==
    /\ pc = "decode_extra"
    /\ end' = end
    /\ IF end # Len(s)
       THEN Raise(JSONDecodeErrorEnd(ExtraData, end, Len(s)))
       ELSE pc' = "done" /\ result' = ReturnValue(val)
    /\ UNCHANGED <<s, call, cfg, begin, chunks, uni, stack, val, hooks, first>>

\* Lines 489-492: only whitespace may follow the value
DecodeExtra ==
    /\ pc = "decode_extra"
    /\ end' = _w(s, end)
    /\ IF _w(s, end) # Len(s)
       THEN Raise(JSONDecodeErrorEnd(ExtraData, _w(s, end), Len(s)))
       ELSE pc' = "done" /\ result' = ReturnValue(val)
    /\ UNCHANGED <<s, call, cfg, begin, chunks, uni, stack, val, hooks, first>>

\* raw_decode has returned (value, e) with text left after the value: the
\* caller calls raw_decode again, with the same idx, on the text cut at e.
\* The first call's outcome is kept.
RawDecodeTruncated ==
    /\ pc = "done"
    /\ call.fn = "raw_decode"
    /\ first = Running
    /\ result.kind = "return"
    /\ result.end < Len(s)
    /\ first' = result
    /\ s' = Slice(s, 0, result.end)
    /\ end' = call.idx
    /\ pc' = "raw_decode"
    /\ stack' = <<>>
    /\ val' = NoValue
    /\ result' = Running
    /\ hooks' = <<>>
    /\ UNCHANGED <<call, cfg, begin, chunks, uni>>

-----------------------------------------------------------------------------
(* The string literals scanned *)

\* Pieces of text, character by character.
F123 == <<".", "1", "2", "3">>
F123456 == <<".", "1", "2", "3", "4", "5", "6">>
F12x == <<".", "1", "2", "x">>
D20200229 == <<"2", "0", "2", "0", "-", "0", "2", "-", "2", "9">>
D20210229 == <<"2", "0", "2", "1", "-", "0", "2", "-", "2", "9">>
D20201301 == <<"2", "0", "2", "0", "-", "1", "3", "-", "0", "1">>
T030405 == <<"0", "3", ":", "0", "4", ":", "0", "5">>
T250405 == <<"2", "5", ":", "0", "4", ":", "0", "5">>
Ufe986c54 == <<"f", "e", "9", "8", "6", "c", "5", "4">>
Ufe986c5H == <<"f", "e", "9", "8", "6", "c", "5", "-">>
Ufe986c5z == <<"f", "e", "9", "8", "6", "c", "5", "z">>
U3bb7 == <<"3", "b", "b", "7">>
Utail == <<"1", "1", "e", "5", "-", "a", "a", "3", "5", "-", "3", "0", "8", "5", "a", "9", "9", "c", "c", "a", "c", "7">>

\* The most fragments a string literal's body is made of.
MaxFrags == 2

\* The four characters tried after \u: hex digits in both cases, a sign, a
\* space, an underscore, a 0x prefix, letters that are no hex digits; the
\* surrogate range's ends.
Hex4 ==
    {<<"0", "0", "4", "1">>, <<"+", "1", "2", "a">>,
     <<" ", "1", "2", "a">>, <<"1", "_", "2", "a">>,
     <<"-", "1", "2", "a">>, <<"0", "x", "4", "1">>,
     <<"z", "z", "z", "z">>, <<"d", "8", "0", "0">>,
     <<"D", "B", "F", "F">>, <<"d", "c", "0", "0">>,
     <<"D", "F", "F", "F">>}

\* A string body's fragments: a \u escape, a plain character, raw control
\* characters, a valid and an invalid one-character escape.
Fragments ==
    {<<"\\", "u">> \o h : h \in Hex4}
    \cup {<<"a">>, <<"\t">>, <<"\f">>, <<"\\", "n">>, <<"\\", "q">>}

RECURSIVE Bodies(_)
Bodies(n) ==
    IF n = 0 THEN {<<>>}
    ELSE Bodies(n - 1) \cup {b \o f : b \in Bodies(n - 1), f \in Fragments}

\* Every text that starts a quoted literal: the literals and their truncations.
Prefixes(full) == {SubSeq(full, 1, n) : n \in 1..Len(full)}

EscapeTexts ==
    UNION {Prefixes((<<"\"">> \o b) \o <<"\"">>) : b \in Bodies(MaxFrags)}

\* Candidates for a date: 10 characters
DateCandidates ==
    {(((y \o sep) \o m) \o sep) \o d :
        y \in {<<"2", "0", "2", "0">>,
              <<"0", "0", "0", "0">>,
              <<"2", "0", "x", "0">>},
        m \in {<<"0", "2">>, <<"1", "3">>},
        d \in {<<"2", "9">>, <<"3", "0">>},
        sep \in {<<"-">>, <<"/">>}}

\* Candidates for a time: 8, 12 or 15 characters
TimeCandidates ==
    {((((h \o <<":">>) \o <<"0", "4">>) \o <<":">>) \o sec) \o frac :
        h \in {<<"0", "3">>, <<"2", "5">>},
        sec \in {<<"0", "5">>, <<"6", "1">>},
        frac \in {<<>>, F123, F123456, F12x}}

\* Candidates for a datetime: 19, 20, 23, 24, 26 or 27 characters
DatetimeCandidates ==
    {(((d \o sep) \o tm) \o frac) \o z :
        d \in {D20200229, D20210229, D20201301},
        sep \in {<<"T">>, <<" ">>},
        tm \in {T030405, T250405},
        frac \in {<<>>, F123, F123456},
        z \in {<<>>, <<"Z">>}}

\* Candidates for a UUID: 36 characters, hyphens at 8, 13, 18 and 23
UUIDCandidates ==
    {(((g1 \o <<"-">>) \o U3bb7) \o sep) \o Utail :
        g1 \in {Ufe986c54, Ufe986c5H, Ufe986c5z},
        sep \in {<<"-">>, <<"_">>}}

LiteralTexts ==
    {(<<"\"">> \o c) \o <<"\"">> :
        c \in DateCandidates \cup TimeCandidates \cup DatetimeCandidates
              \cup UUIDCandidates \cup {<<>>, <<"a", "b">>}}

-----------------------------------------------------------------------------
(* Calling py_scanstring on a text that starts with a quote *)

Config(strict, iso_datetime, handle_uuid, object_hook, object_pairs_hook) ==
    [strict |-> strict, iso_datetime |-> iso_datetime, handle_uuid |-> handle_uuid,
     object_hook |-> object_hook, object_pairs_hook |-> object_pairs_hook]

\* py_scanstring(text, 1, strict=..., iso_datetime=..., handle_uuid=...)
InitString ==
    /\ \/ /\ s \in EscapeTexts
          /\ \E strict \in BOOLEAN : cfg = Config(strict, FALSE, FALSE, FALSE, FALSE)
       \/ /\ s \in LiteralTexts
          /\ \E iso \in BOOLEAN, uuid \in BOOLEAN :
                cfg = Config(TRUE, iso, uuid, FALSE, FALSE)
    /\ call = [fn |-> "py_scanstring", idx |-> 1]
    /\ end = 1
    /\ pc = "py_scanstring"
    /\ begin = 0
    /\ chunks = <<>>
    /\ uni = 0
    /\ stack = <<>>
    /\ val = NoValue
    /\ result = Running
    /\ hooks = <<>>
    /\ first = Running

NextString ==
    \/ PyScanstring
    \/ ScanChunk
    \/ Escape
    \/ UnicodeEscape
    \/ Surrogate
    \/ JoinChunks

SpecString == InitString /\ [][NextString]_vars

-----------------------------------------------------------------------------
(* The documents decoded *)

\* The most whitespace characters written at one place of a document.
MaxWs == 3

\* The largest start offset passed to raw_decode, and the largest distance
\* of a negative one from 0.
MaxIdx == 3

\* A run of n whitespace characters
WsChars == <<" ", "\n", "\t", "\r">>
Ws(n) == [i \in 1..n |-> WsChars[((i - 1) % 4) + 1]]

\* The tokens of the document {"a":1,"b":[2,3]}
Tokens ==
    <<<<"{">>, <<"\"", "a", "\"">>, <<":">>, <<"1">>, <<",">>,
      <<"\"", "b", "\"">>, <<":">>, <<"[">>, <<"2">>, <<",">>, <<"3">>,
      <<"]">>, <<"}">>>>

\* The tokens from the i-th on, with n whitespace characters before the p-th
\* (after the last one when p is Len(Tokens) + 1)
RECURSIVE Gapped(_, _, _)
Gapped(i, p, n) ==
    IF i > Len(Tokens) THEN (IF p = i THEN Ws(n) ELSE <<>>)
    ELSE ((IF p = i THEN Ws(n) ELSE <<>>) \o Tokens[i]) \o Gapped(i + 1, p, n)

\* The document with whitespace at one place
SpacedDocuments ==
    {Gapped(1, p, n) : p \in 1..(Len(Tokens) + 1), n \in 0..MaxWs}

\* A character that may be out of place where it is written
Defects == {"x", "}", "]", ",", ":", "\""}

\* A document, cut anywhere, alone or with a character written after the cut
Damaged(full) ==
    {SubSeq(full, 1, n) : n \in 0..Len(full)}
    \cup {Append(SubSeq(full, 1, n), c) : n \in 0..Len(full), c \in Defects}

DamagedDocuments == UNION {Damaged(d) : d \in SpacedDocuments}

\* Whole documents: empty objects, duplicate keys, nesting, escapes
DocEmptyObject == <<"{", "}">>
DocEmptyObjectSpaced == <<"{", " ", "\n", "}">>
DocDuplicateKeys ==
    <<"{", "\"", "a", "\"", ":", "1", ",", "\"", "b", "\"", ":", "2", ",", "\"", "a", "\"", ":", "3", "}">>
DocNestedObjects ==
    <<"{", "\"", "a", "\"", ":", "{", "\"", "a", "\"", ":", "1", ",", "\"", "a", "\"", ":", "2", "}", ",", "\"", "b", "\"", ":", "[", "{", "}", "]", "}">>
DocArrayOfObjects ==
    <<"[", "{", "\"", "k", "\"", ":", "n", "u", "l", "l", "}", ",", "{", "\"", "k", "\"", ":", "t", "r", "u", "e", ",", "\"", "j", "\"", ":", "-", "1", ".", "5", "e", "3", "}", "]">>
DocEscapes ==
    <<"{", "\"", "\\", "u", "0", "0", "4", "1", "\\", "n", "\"", ":", "\"", "\\", "u", "d", "8", "3", "d", "\\", "u", "d", "e", "0", "0", "\"", "}">>
DocDate ==
    <<"[", "\"", "2", "0", "2", "0", "-", "0", "2", "-", "2", "9", "\"", ",", "\"", "a", "\t", "b", "\"", "]">>

WholeDocuments ==
    {DocEmptyObject, DocEmptyObjectSpaced, DocDuplicateKeys,
     DocNestedObjects, DocArrayOfObjects, DocEscapes,
     DocDate}

\* Short texts: values with text after them, and no value at all

ShortTexts ==
    {<<>>,
     <<" ", "\n">>,
     <<" ", "1", "2", " ">>,
     <<"1", ".", "5", ".">>,
     <<"-">>,
     <<"n", "u", "l", "l", "x">>,
     <<"\"", "a", "\"", "x">>,
     <<"[", "1", "]", " ", "]">>,
     <<"{", "}", "{", "}">>,
     <<"N", "a", "N", ",">>,
     <<"\"", "\\", "u", "-", "1", "2", "a", "\"">>}

-----------------------------------------------------------------------------
(* Calling JSONDecoder.decode and JSONDecoder.raw_decode *)

\* JSONDecoder(strict=..., iso_datetime=..., handle_uuid=..., object_hook=...,
\* object_pairs_hook=...).decode(text) or .raw_decode(text, idx)
Init ==
    /\ \/ /\ s \in DamagedDocuments
          /\ cfg = Config(TRUE, FALSE, FALSE, FALSE, FALSE)
          /\ call \in {[fn |-> "decode", idx |-> 0], [fn |-> "raw_decode", idx |-> 0]}
       \/ /\ s \in WholeDocuments
          /\ \E strict \in BOOLEAN, iso \in BOOLEAN, oh \in BOOLEAN, oph \in BOOLEAN :
                cfg = Config(strict, iso, FALSE, oh, oph)
          /\ call = [fn |-> "decode", idx |-> 0]
       \/ /\ s \in ShortTexts
          /\ cfg = Config(TRUE, FALSE, FALSE, FALSE, FALSE)
          /\ \/ call = [fn |-> "decode", idx |-> 0]
             \/ \E idx \in (0 - MaxIdx)..MaxIdx : call = [fn |-> "raw_decode", idx |-> idx]
    /\ end = call.idx
    /\ pc = call.fn
    /\ begin = 0
    /\ chunks = <<>>
    /\ uni = 0
    /\ stack = <<>>
    /\ val = NoValue
    /\ result = Running
    /\ hooks = <<>>
    /\ first = Running

Next ==
    \/ Decode
    \/ RawDecode
    \/ RawDecodeTruncated
    \/ DecodeExtra
    \/ ScanOnce
    \/ PyScanstring
    \/ ScanChunk
    \/ Escape
    \/ UnicodeEscape
    \/ Surrogate
    \/ JoinChunks
    \/ ObjectStart
    \/ ObjectColon
    \/ ObjectBeforeValue
    \/ ObjectValue
    \/ ObjectComma
    \/ ObjectFinish
    \/ ArrayStart
    \/ ArrayValue
    \/ ArrayComma

Spec == Init /\ [][Next]_vars

\* The decoder is one sequential computation: a step that can be taken is
\* taken.
SpecLive == Init /\ [][Next]_vars /\ WF_vars(Next)

-----------------------------------------------------------------------------
(* Properties of py_scanstring *)

HexDigitChars ==
    {"0", "1", "2", "3", "4", "5", "6", "7", "8", "9",
     "a", "b", "c", "d", "e", "f", "A", "B", "C", "D", "E", "F"}

\* Exactly four hex digits
FourHexDigits(esc) == Len(esc) = 4 /\ \A i \in DOMAIN esc : esc[i] \in HexDigitChars

HexDigitValue(c) ==
    CASE c \in {"a", "A"} -> 10 [] c \in {"b", "B"} -> 11 [] c \in {"c", "C"} -> 12
      [] c \in {"d", "D"} -> 13 [] c \in {"e", "E"} -> 14 [] c \in {"f", "F"} -> 15
      [] OTHER -> Ord(c) - 48

\* The number four hex digits write
FourHexValue(esc) ==
    ((HexDigitValue(esc[1]) * 16 + HexDigitValue(esc[2])) * 16
        + HexDigitValue(esc[3])) * 16 + HexDigitValue(esc[4])

IsHighSurrogate(u) == u >= 55296 /\ u <= 56319
IsLowSurrogate(u) == u >= 56320 /\ u <= 57343

\* The scanner is at a \u escape (the cursor is on the u) that is not four
\* hex digits.
AtMalformedEscape ==
    pc = "unicode" /\ ~FourHexDigits(Slice(s, end + 1, end + 5))

\* The scanner has read a high surrogate and is at a second \u escape (the
\* cursor is on its backslash) that is not four hex digits.
AtMalformedSecondEscape ==
    /\ pc = "surrogate"
    /\ IsHighSurrogate(uni)
    /\ Slice(s, end, end + 2) = <<"\\", "u">>
    /\ ~FourHexDigits(Slice(s, end + 2, end + 6))

\* C2: extended-literal resolution never fails: _datetime_or_string and
\* _uuid_or_string return a date, datetime, time or UUID value or the original
\* string, and never raise, whatever the decoded string and the flags.
C2_ResolutionNeverRaises ==
    ~(/\ pc = "done"
      /\ result.kind = "ValueError"
      /\ result.from \in {"_datetime_or_string", "_uuid_or_string"})

\* C4: a \u escape whose next four characters are not all hex digits makes the
\* scan fail with InvalidUnicodeEscape at the offset of the escape's backslash,
\* and no character is produced from it; likewise for the second escape of a
\* would-be surrogate pair (there the scan fails at once, or goes on to read
\* that escape on its own, with the cursor still on its backslash).
C4_MalformedEscapeRejected ==
    [][/\ AtMalformedEscape =>
            /\ pc' = "done"
            /\ result' = JSONDecodeError(InvalidUnicodeEscape, end - 1)
            /\ chunks' = chunks
       /\ AtMalformedSecondEscape =>
            \/ pc' = "done" /\ result' = JSONDecodeError(InvalidUnicodeEscape, end)
            \/ pc' = "chunk" /\ end' = end]_vars

\* C5: a high surrogate escape followed at once by a low surrogate escape is
\* consumed with it (the cursor moves over the second escape's 6 characters)
\* and yields the one code point 0x10000 + ((h - 0xD800) << 10) + (l - 0xDC00),
\* in 0x10000..0x10FFFF; in every other case in which the scan goes on, the
\* code point of the escape is emitted unchanged and the cursor stays where
\* the escape ended.
C5_SurrogatePairs ==
    [][pc = "surrogate" /\ pc' = "chunk" =>
         LET esc2 == Slice(s, end + 2, end + 6)
             paired == /\ IsHighSurrogate(uni)
                       /\ Slice(s, end, end + 2) = <<"\\", "u">>
                       /\ FourHexDigits(esc2)
                       /\ IsLowSurrogate(FourHexValue(esc2))
         IN  IF paired
             THEN /\ chunks' = Append(chunks,
                        65536 + (uni - 55296) * 1024 + (FourHexValue(esc2) - 56320))
                  /\ chunks'[Len(chunks')] \in 65536..1114111
                  /\ end' = end + 6
             ELSE /\ chunks' = Append(chunks, uni)
                  /\ end' = end]_vars

\* C5's case: a pair has been joined into a supplementary code point.
C5_Witness ==
    /\ pc = "chunk"
    /\ chunks # <<>>
    /\ chunks[Len(chunks)] >= 65536
    /\ Slice(s, end - 12, end - 10) = <<"\\", "u">>

\* The scan runs off the end of the text: no terminator is left for the chunk
\* match, or nothing follows a backslash.
RunsOffTheEnd ==
    \/ pc = "chunk" /\ \A j \in end..(Len(s) - 1) : ~IsTerminator(At(s, j))
    \/ pc = "escape" /\ end >= Len(s)

\* The text ends inside a \u escape: fewer than four characters follow the u.
EndsInsideEscape == pc = "unicode" /\ end + 5 > Len(s)

\* C6 as claimed: whenever the input ends before the closing quote is found,
\* in ordinary characters, right after a backslash or inside a \u escape, the
\* scan fails with UnterminatedString at the offset of the opening quote.
C6_AlwaysUnterminated ==
    [][RunsOffTheEnd \/ EndsInsideEscape =>
         pc' = "done" /\ result' = JSONDecodeError(UnterminatedString, call.idx - 1)]_vars

\* C6 as amended: the end of the text in ordinary characters or right after a
\* backslash is UnterminatedString at the offset of the opening quote; the end
\* of the text inside a \u escape is InvalidUnicodeEscape at the offset of the
\* escape's backslash.
C6_RunningOffTheEnd ==
    [][/\ RunsOffTheEnd =>
            pc' = "done" /\ result' = JSONDecodeError(UnterminatedString, call.idx - 1)
       /\ EndsInsideEscape =>
            pc' = "done" /\ result' = JSONDecodeError(InvalidUnicodeEscape, end - 1)]_vars

\* C6's case: the text ended inside a \u escape and the scan has failed.
C6_Witness ==
    /\ pc = "done"
    /\ end < Len(s) /\ At(s, end) = "u" /\ At(s, end - 1) = "\\"
    /\ end + 5 > Len(s)
    /\ result.kind = "JSONDecodeError"

\* C7: at a raw control character, a strict scan fails with
\* InvalidControlCharacter at the offset of that character and returns
\* nothing; a non-strict scan appends the character after the content before
\* it and goes on behind it.
C7_ControlCharacters ==
    [][pc = "chunk" /\ (\E j \in end..(Len(s) - 1) : IsTerminator(At(s, j))) =>
         LET j == Min({i \in end..(Len(s) - 1) : IsTerminator(At(s, i))})
         IN  Ord(At(s, j)) <= 31 =>
               IF cfg.strict
               THEN /\ pc' = "done"
                    /\ result' = JSONDecodeError(InvalidControlCharacter, j)
               ELSE /\ pc' = "chunk"
                    /\ chunks' = (chunks \o Ords(Slice(s, end, j))) \o <<Ord(At(s, j))>>
                    /\ end' = j + 1
                    /\ result' = result]_vars

-----------------------------------------------------------------------------
(* Properties of decode, raw_decode, JSONObject and JSONArray *)

\* The whitespace of JSON
SpaceTabLFCR == {" ", "\t", "\n", "\r"}

\* The offset of the first character at or after e that is no whitespace,
\* Len(s) when there is none
FirstNonWhitespace(e) ==
    Min({i \in e..(Len(s) - 1) : At(s, i) \notin SpaceTabLFCR} \cup {Len(s)})

\* The first character at or after e that is no whitespace, "" when there is
\* none
FirstAfterWhitespace(e) ==
    IF FirstNonWhitespace(e) < Len(s) THEN At(s, FirstNonWhitespace(e)) ELSE ""

Max(S) == CHOOSE x \in S : \A y \in S : y <= x

Failed(msg, pos) == pc' = "done" /\ result' = JSONDecodeError(msg, pos)

\* C1: when raw_decode(s, 0) has returned (value, e) to decode, decode returns
\* that value if only space, tab, LF and CR follow e, and otherwise fails with
\* ExtraData at the first other character at or after e, with end offset
\* len(s); it returns no value when anything else follows the first value.
C1_DecodeAfterRawDecode ==
    [][pc = "decode_extra" =>
         /\ pc' = "done"
         /\ IF \A i \in end..(Len(s) - 1) : At(s, i) \in SpaceTabLFCR
            THEN result' = ReturnValue(val)
            ELSE result' = JSONDecodeErrorEnd(ExtraData, FirstNonWhitespace(end), Len(s))]_vars

\* C1's case: text follows the value and some whitespace, and decode has
\* failed with ExtraData at that text.
C1_Witness ==
    /\ pc = "done"
    /\ call.fn = "decode"
    /\ result.kind = "JSONDecodeError"
    /\ result.msg = ExtraData
    /\ result.pos >= 2
    /\ At(s, result.pos - 1) \in SpaceTabLFCR

\* A step in which JSONObject returns
ObjectReturns ==
    /\ pc \in {"JSONObject", "object_return"}
    /\ Len(stack') < Len(stack)

\* The pairs of the object that returns
ParsedPairs == IF pc = "JSONObject" THEN <<>> ELSE stack[Len(stack)].pairs

\* m is a mapping with the keys of the pairs, each with the value of the last
\* pair that carries it
LastPairWins(m, pairs) ==
    /\ m.t = "dict"
    /\ \A i, j \in DOMAIN m.v : m.v[i][1] = m.v[j][1] => i = j
    /\ {m.v[i][1] : i \in DOMAIN m.v} = {pairs[i][1] : i \in DOMAIN pairs}
    /\ \A i \in DOMAIN m.v :
          m.v[i][2] = pairs[Max({j \in DOMAIN pairs : pairs[j][1] = m.v[i][1]})][2]

\* The number of opening braces in the text
Braces == Cardinality({i \in DOMAIN s : s[i] = "{"})

\* The pairs written in DocDuplicateKeys
PairsOfDocDuplicateKeys ==
    <<<<Str(<<97>>), Value("int", <<49>>)>>, <<Str(<<98>>), Value("int", <<50>>)>>,
      <<Str(<<97>>), Value("int", <<51>>)>>>>

\* C3: when an object is complete (the empty one too), object_pairs_hook, if
\* set, is called once with all the pairs in input order, duplicate keys
\* kept, its result is the object's value and object_hook is not called;
\* otherwise the pairs are folded into a mapping in which the last pair with
\* a key gives its value, and object_hook, if set, is called once with that
\* mapping and its result is the object's value. A decoded document has one
\* hook call for each of its objects.
C3_ObjectHooks ==
    /\ [][ObjectReturns =>
            IF cfg.object_pairs_hook
            THEN /\ hooks' = Append(hooks, [hook |-> "object_pairs_hook",
                                            arg |-> ParsedPairs])
                 /\ val' = Value("object_pairs_hook", ParsedPairs)
            ELSE IF cfg.object_hook
            THEN /\ Len(hooks') = Len(hooks) + 1
                 /\ SubSeq(hooks', 1, Len(hooks)) = hooks
                 /\ hooks'[Len(hooks')].hook = "object_hook"
                 /\ LastPairWins(hooks'[Len(hooks')].arg, ParsedPairs)
                 /\ val' = Value("object_hook", <<hooks'[Len(hooks')].arg>>)
            ELSE /\ hooks' = hooks
                 /\ LastPairWins(val', ParsedPairs)]_vars
    /\ [](pc = "done" /\ result.kind = "return" /\ s \in WholeDocuments =>
            /\ Len(hooks) = IF cfg.object_pairs_hook \/ cfg.object_hook
                            THEN Braces ELSE 0
            /\ s = DocDuplicateKeys /\ cfg.object_pairs_hook =>
                 hooks = <<[hook |-> "object_pairs_hook",
                            arg |-> PairsOfDocDuplicateKeys]>>)

\* C3's case: both hooks are set and an object with a duplicate key has been
\* decoded.
C3_Witness ==
    /\ pc = "done"
    /\ s = DocDuplicateKeys
    /\ cfg.object_pairs_hook /\ cfg.object_hook
    /\ result.kind = "return"
    /\ result.value = Value("object_pairs_hook", PairsOfDocDuplicateKeys)

\* C8: raw_decode with a negative start offset fails with ExpectingValue at
\* that offset and the scanner is not invoked; with a start offset of 0 or
\* more, a success returns the value and the offset just after it: the same
\* call on the text cut at that offset returns the same pair, so nothing
\* that follows the value changed the outcome.
C8_RawDecode ==
    /\ [][pc = "raw_decode" /\ end < 0 => Failed(ExpectingValue, end)]_vars
    /\ [](call.idx < 0 => pc \in {"raw_decode", "done"})
    /\ [](first # Running /\ pc = "done" =>
            /\ result = first
            /\ result.end = Len(s)
            /\ result.end >= call.idx)

\* C8's case: raw_decode returned a value with text left after it, and has
\* been called again on the text without what followed the value.
C8_Witness ==
    /\ pc = "done"
    /\ first # Running
    /\ result = first
    /\ call.idx > 0

\* C9: JSONObject reports a wrong delimiter at the offset of the first
\* character after any whitespace (len(text) at the end of the text): after
\* the opening brace anything but a quote or a closing brace is
\* ExpectingPropertyName, after a key anything but a colon is ExpectingColon,
\* after a value anything but a closing brace or a comma is
\* ExpectingCommaOrBrace, after a comma anything but a quote is
\* ExpectingPropertyName; the right delimiter is accepted after any amount of
\* whitespace.
C9_ObjectDelimiters ==
    [][/\ pc = "JSONObject" =>
            IF FirstAfterWhitespace(end) = "\""
            THEN pc' = "py_scanstring" /\ end' = FirstNonWhitespace(end) + 1
            ELSE IF FirstAfterWhitespace(end) = "}"
            THEN /\ Len(stack') < Len(stack)
                 /\ end' = FirstNonWhitespace(end) + 1
                 /\ result'.kind # "JSONDecodeError"
            ELSE Failed(ExpectingPropertyName, FirstNonWhitespace(end))
       /\ pc = "object_colon" =>
            IF FirstAfterWhitespace(end) = ":"
            THEN pc' = "object_before_value" /\ end' = FirstNonWhitespace(end) + 1
            ELSE Failed(ExpectingColon, FirstNonWhitespace(end))
       /\ pc = "object_before_value" =>
            pc' = "scan_once" /\ end' = FirstNonWhitespace(end)
       /\ pc = "object_value" =>
            IF FirstAfterWhitespace(end) = "}"
            THEN pc' = "object_return" /\ end' = FirstNonWhitespace(end) + 1
            ELSE IF FirstAfterWhitespace(end) = ","
            THEN pc' = "object_comma" /\ end' = FirstNonWhitespace(end) + 1
            ELSE Failed(ExpectingCommaOrBrace, FirstNonWhitespace(end))
       /\ pc = "object_comma" =>
            IF FirstAfterWhitespace(end) = "\""
            THEN pc' = "py_scanstring" /\ end' = FirstNonWhitespace(end) + 1
            ELSE Failed(ExpectingPropertyName, FirstNonWhitespace(end))]_vars

\* C9's case: a comma, three whitespace characters and a closing brace; the
\* brace has been refused where it stands.
C9_Witness ==
    /\ pc = "done"
    /\ result = JSONDecodeError(ExpectingPropertyName, Len(s) - 1)
    /\ Len(s) >= 5
    /\ At(s, Len(s) - 1) = "}"
    /\ \A i \in (Len(s) - 4)..(Len(s) - 2) : At(s, i) \in SpaceTabLFCR
    /\ At(s, Len(s) - 5) = ","

\* C10 as claimed: in every state of a decode, the cursor lies in
\* 0..len(text); checked here for the start offsets that lie in 0..len(text)
\* themselves.
C10_CursorWithinText ==
    call.idx >= 0 /\ call.idx <= Len(s) => 0 <= end /\ end <= Len(s)

\* C10 as amended: for a start offset of 0 or more, once raw_decode has
\* skipped whitespace the cursor lies in 0..len(text) + 1; it is len(text) + 1
\* only when JSONObject or JSONArray has stepped over the missing delimiter at
\* the end of the text and fails with an error at len(text). Every end offset
\* returned and every offset of a JSONDecodeError lies in 0..len(text).
C10_CursorBounds ==
    call.idx >= 0 =>
        /\ pc \notin {"decode", "raw_decode"} => 0 <= end /\ end <= Len(s) + 1
        /\ pc \notin {"decode", "raw_decode"} /\ end = Len(s) + 1 =>
              /\ pc = "done"
              /\ result.kind = "JSONDecodeError"
              /\ result.pos = Len(s)
              /\ result.msg \in {ExpectingCommaOrBrace, ExpectingCommaOrBracket,
                                 ExpectingPropertyName}
        /\ pc = "done" /\ result.kind = "JSONDecodeError" =>
              0 <= result.pos /\ result.pos <= Len(s)
        /\ pc = "done" /\ result.kind = "return" /\ call.fn = "raw_decode" =>
              0 <= result.end /\ result.end <= Len(s)

\* C10's case: the text ended where a delimiter was due, the cursor is one
\* past the end of the text and the error carries len(text).
C10_Witness ==
    /\ pc = "done"
    /\ call.idx >= 0
    /\ end = Len(s) + 1
    /\ result.kind = "JSONDecodeError"
    /\ result.pos = Len(s)

-----------------------------------------------------------------------------
(* Progress and termination *)

\* The places where an iteration of a loop consumes text: the chunk match of
\* py_scanstring, the value scan, and the delimiters of JSONObject and
\* JSONArray
ConsumingPlaces ==
    {"chunk", "scan_once", "JSONObject", "object_colon", "object_value",
     "object_comma", "array_value"}

\* No step of the scanners moves the cursor back, and a step at a consuming
\* place that does not fail moves it forward; every iteration of the loop of
\* py_scanstring goes through the chunk match, of JSONObject through the
\* colon, of JSONArray through the delimiter after a value.
CursorAdvances ==
    [][pc \notin {"decode", "raw_decode", "done"} =>
         /\ end' >= end
         /\ pc \in ConsumingPlaces /\ result'.kind \in {"running", "return"} =>
               end' > end]_vars

\* A call that succeeds returns an offset greater than the one it was given:
\* py_scanstring was given begin + 1, raw_decode was given idx, and a
\* JSONObject or JSONArray that returns stands behind its closing character.
CallsAdvance ==
    /\ [][pc = "join" /\ result'.kind \in {"running", "return"} =>
            end' > begin + 1]_vars
    /\ [][Len(stack') < Len(stack) =>
            end' >= end /\ end' >= 2 /\ At(s, end' - 1) \in {"}", "]"}]_vars
    /\ [](pc = "done" /\ call.fn = "raw_decode" /\ result.kind = "return" =>
            result.end > call.idx)

\* Every decode comes to an end
Terminates == <>[](pc = "done")

\* An outcome is there exactly when the call has ended, and nothing is done
\* after an error
NoStepAfterError ==
    /\ [](pc = "done" <=> result.kind # "running")
    /\ [][~(pc = "done" /\ result.kind # "return")]_vars

\* The outcome of a call that has ended is a value or a JSONDecodeError
ValueOrJSONDecodeError ==
    [](pc = "done" => result.kind \in {"return", "JSONDecodeError"})

\* C11: every iteration of the loops of py_scanstring, JSONObject and
\* JSONArray moves the cursor forward and every successful call returns an
\* offset greater than the one it was given; every decode of a finite text
\* ends, with exactly one outcome, which is a value or the first
\* JSONDecodeError met, and nothing is parsed after an error.
C11_ProgressAndTermination ==
    /\ CursorAdvances
    /\ CallsAdvance
    /\ Terminates
    /\ NoStepAfterError
    /\ ValueOrJSONDecodeError

====
